---- MODULE Spec2Model ----
(***************************************************************************)
(* The booking sample (src/main.go): main/runAgent's startup sequence, the *)
(* three scripted calls of run, run's loop over the runner's event         *)
(* iterator, and the two tool handlers bookHotel and bookFlight.           *)
(*                                                                         *)
(* The agent framework, the model client and the session service are       *)
(* imported packages.  What they return to this program is an input: each  *)
(* constructor either succeeds or returns an error, and the iterator       *)
(* r.Run returns yields any item of Items, any number of times up to       *)
(* MaxEvents, and then ends.                                               *)
(*                                                                         *)
(* A formatted string is the sequence of its pieces (the format's literal  *)
(* text and the arguments), so "contains" is membership of a piece.        *)
(***************************************************************************)
EXTENDS Integers, Sequences, FiniteSets, TLC

\* ------------------------------------------------------------------ bounds

\* Items one run's iterator yields at most.
MaxEvents == 2

\* Tool handler invocations in the whole execution at most.
MaxToolCalls == 1

\* ------------------------------------------------------------- the script

\* The prompts of the three run calls, main.go:165-167.
Prompts ==
  << "i want to visit in london?", "on 2025-11-14", "also book a hotel for me " >>

NumPrompts == Len(Prompts)

RunIds == 1..NumPrompts

\* Texts a text part carries.
Texts == {"Booked. CONF_HOTEL_98765"}

Locations == {"London"}

Dates == {"2025-11-14"}

Origins == {"Paris"}

\* ------------------------------------------------------- events (genai.Content)

TextPart(t) == [kind |-> "text", text |-> t]

CallPart == [kind |-> "functionCall", text |-> ""]

ResponsePart == [kind |-> "functionResponse", text |-> ""]

\* event.Content == nil
NilContentEvent == [hasContent |-> FALSE, parts |-> << >>]

\* event.Content.Parts is empty
EmptyPartsEvent == [hasContent |-> TRUE, parts |-> << >>]

EventOf(ps) == [hasContent |-> TRUE, parts |-> ps]

Events ==
  {NilContentEvent, EmptyPartsEvent, EventOf(<<CallPart>>), EventOf(<<ResponsePart>>)}
    \cup {EventOf(<<TextPart(t)>>) : t \in Texts}
    \cup {EventOf(<<CallPart, TextPart(t)>>) : t \in Texts}
    \cup {EventOf(<<TextPart(t), CallPart>>) : t \in Texts}

\* What one iteration of `for event, err := range events` receives.
Items ==
  {[isErr |-> TRUE, event |-> NilContentEvent]}
    \cup {[isErr |-> FALSE, event |-> e] : e \in Events}

\* The texts of an event's parts, in order, empty texts left out.
RECURSIVE PartTexts(_)
PartTexts(ps) ==
  IF ps = << >> THEN << >>
  ELSE (IF Head(ps).text # "" THEN <<Head(ps).text>> ELSE << >>) \o PartTexts(Tail(ps))

CarriesText(e) == PartTexts(e.parts) # << >>

\* ----------------------------------------------------------- tool handlers

\* fmt.Printf("%v", arg) of a struct: its fields in braces.
FormatArg(fields) == <<"{">> \o fields \o <<"}">>

\* bookHotel, main.go:33-41.
bookHotel(arg) ==
  [ Status |-> "success",
    Report |-> << "Hotel booked in ", arg.Location, " on ", arg.Date,
                  ". Confirmation: ", "CONF_HOTEL_98765" >>,
    ErrorMessage |-> "" ]

\* bookFlight, main.go:54-62.
bookFlight(arg) ==
  [ Status |-> "success",
    Report |-> << "Flight booked from ", arg.Origin, " to ", arg.Destination,
                  " on ", arg.Date, ". Confirmation: ", "CONF_FLIGHT_12345" >>,
    ErrorMessage |-> "" ]

Contains(pieces, s) == \E i \in 1..Len(pieces) : pieces[i] = s

\* ------------------------------------------------------------------ state

VARIABLES
  pc,          \* where main/runAgent stands
  envLoadOk,   \* godotenv.Load() returns nil
  apiKey,      \* what os.Getenv("API_KEY") returns
  err,         \* the error runAgent returns, << >> for nil
  created,     \* the objects constructed so far
  runs,        \* per prompt: idle, active, done, fatal, panic
  consumed,    \* per prompt: items its loop has received
  submitted,   \* the prompts passed to r.Run, in call order
  stdout,      \* chunks written to standard output, in order
  stderr,      \* lines written to standard error, in order
  exited,      \* the process has ended
  exitCode,    \* its exit status, once exited
  carried,     \* history: the texts of the events received that carry text
  toolResults  \* what the handlers returned, in call order

vars ==
  << pc, envLoadOk, apiKey, err, created, runs, consumed, submitted,
     stdout, stderr, exited, exitCode, carried, toolResults >>

Init ==
  /\ pc = "load_env"
  /\ envLoadOk \in BOOLEAN
  /\ apiKey \in {"", "secret"}
  /\ err = << >>
  /\ created = {}
  /\ runs = [k \in RunIds |-> "idle"]
  /\ consumed = [k \in RunIds |-> 0]
  /\ submitted = << >>
  /\ stdout = << >>
  /\ stderr = << >>
  /\ exited = FALSE
  /\ exitCode = 0
  /\ carried = << >>
  /\ toolResults = << >>

\* --------------------------------------------------------------- startup

\* runAgent returns a non-nil error: control is back in main with it.
ReturnErr(msg) ==
  /\ err' = msg
  /\ pc' = "main_err"

\* log.Fatal / log.Fatalf: the message on standard error, then os.Exit(1).
LogFatal(msg) ==
  /\ stderr' = Append(stderr, msg)
  /\ exited' = TRUE
  /\ exitCode' = 1

\* main.go:74-76.
LoadEnv ==
  /\ pc = "load_env" /\ ~exited
  /\ \/ /\ ~envLoadOk
        /\ ReturnErr(<<"loading .env file: ", "load error">>)
     \/ /\ envLoadOk
        /\ pc' = "get_key"
        /\ UNCHANGED err
  /\ UNCHANGED << envLoadOk, apiKey, created, runs, consumed, submitted,
                  stdout, stderr, exited, exitCode, carried, toolResults >>

KeyMissingNever(key) == FALSE

\* main.go:80, key == "".
KeyMissing(key) == key = ""

\* main.go:79-82.
GetKey ==
  /\ pc = "get_key" /\ ~exited
  /\ \/ /\ KeyMissing(apiKey)
        /\ ReturnErr(<<"API_KEY environment variable is not set">>)
     \/ /\ ~KeyMissing(apiKey)
        /\ pc' = "new_model"
        /\ UNCHANGED err
  /\ UNCHANGED << envLoadOk, apiKey, created, runs, consumed, submitted,
                  stdout, stderr, exited, exitCode, carried, toolResults >>

\* A constructor call followed by `if err != nil { return fmt.Errorf(...) }`.
Construct(at, obj, next, msg) ==
  /\ pc = at /\ ~exited
  /\ \/ /\ ReturnErr(<<msg, "cause">>)
        /\ UNCHANGED created
     \/ /\ created' = created \cup {obj}
        /\ pc' = next
        /\ UNCHANGED err
  /\ UNCHANGED << envLoadOk, apiKey, runs, consumed, submitted,
                  stdout, stderr, exited, exitCode, carried, toolResults >>

\* main.go:84-89.
NewModel == Construct("new_model", "model", "hotel_tool", "creating Gemini model: ")

\* main.go:92-101.
NewHotelTool == Construct("hotel_tool", "hotelTool", "flight_tool", "creating hotel tool: ")

\* main.go:103-112.
NewFlightTool ==
  Construct("flight_tool", "flightTool", "booking_agent", "creating flight tool: ")

\* main.go:117-125.
NewBookingAgent ==
  Construct("booking_agent", "bookingAgent", "info_agent", "creating booking agent: ")

\* main.go:127-134.
NewInfoAgent ==
  Construct("info_agent", "infoAgent", "coordinator", "creating info agent: ")

\* main.go:136-145.
NewCoordinator ==
  Construct("coordinator", "coordinator", "session_service",
            "creating coordinator agent: ")

\* main.go:147, no error result.
NewSessionService ==
  /\ pc = "session_service" /\ ~exited
  /\ created' = created \cup {"sessionService"}
  /\ pc' = "new_runner"
  /\ UNCHANGED << envLoadOk, apiKey, err, runs, consumed, submitted,
                  stdout, stderr, exited, exitCode, carried, toolResults >>

\* A constructor call followed by `if err != nil { log.Fatal(err) }`.
ConstructOrDie(at, obj, next) ==
  /\ pc = at /\ ~exited
  /\ \/ /\ LogFatal(<<"cause">>)
        /\ UNCHANGED << created, pc >>
     \/ /\ created' = created \cup {obj}
        /\ pc' = next
        /\ UNCHANGED << stderr, exited, exitCode >>
  /\ UNCHANGED << envLoadOk, apiKey, err, runs, consumed, submitted,
                  stdout, carried, toolResults >>

\* main.go:148-155.
NewRunner == ConstructOrDie("new_runner", "runner", "create_session")

\* main.go:157-163.
CreateSession == ConstructOrDie("create_session", "session", "runs")

\* main.go:67-70: the error line on standard error, exit status 1.
MainFail ==
  /\ pc = "main_err" /\ ~exited
  /\ stderr' = Append(stderr, <<"Error: ">> \o err \o <<"\n">>)
  /\ exited' = TRUE
  /\ exitCode' = 1
  /\ UNCHANGED << pc, envLoadOk, apiKey, err, created, runs, consumed, submitted,
                  stdout, carried, toolResults >>

\* ------------------------------------------------------------------- runs

PrevRunsFinishedNoWait(k) == TRUE

\* run is an ordinary call and its range loop returns when the iterator has
\* ended: the call for prompt k is reached when the calls before it returned.
PrevRunsFinished(k) == \A j \in 1..(k - 1) : runs[j] = "done"

\* run's first two statements, main.go:173-182: the prompt line, then r.Run.
RunStart(k) ==
  /\ pc = "runs" /\ ~exited
  /\ runs[k] = "idle"
  /\ k = Len(submitted) + 1
  /\ PrevRunsFinished(k)
  /\ stdout' = Append(stdout, <<"\n> ", Prompts[k], "\n">>)
  /\ submitted' = Append(submitted, Prompts[k])
  /\ runs' = [runs EXCEPT ![k] = "active"]
  /\ UNCHANGED << pc, envLoadOk, apiKey, err, created, consumed,
                  stderr, exited, exitCode, carried, toolResults >>

\* event.Content.Parts[0] can be read: Content is not nil and Parts is not empty.
FirstPartReadable(e) == e.hasContent /\ Len(e.parts) >= 1

\* One iteration of the loop body, main.go:184-190, on item it.
LoopBody(k, it) ==
  IF it.isErr
  THEN \* log.Fatalf("ERROR during agent execution: %v", err)
       /\ LogFatal(<<"ERROR during agent execution: ", "cause">>)
       /\ runs' = [runs EXCEPT ![k] = "fatal"]
       /\ UNCHANGED stdout
  ELSE IF ~FirstPartReadable(it.event)
  THEN \* nil dereference or index out of range: the runtime panics
       /\ stderr' = Append(stderr, <<"panic: runtime error">>)
       /\ exited' = TRUE
       /\ exitCode' = 2
       /\ runs' = [runs EXCEPT ![k] = "panic"]
       /\ UNCHANGED stdout
  ELSE /\ stdout' =
            IF it.event.parts[1].text # ""
            THEN Append(stdout, <<"Agent Response: ", it.event.parts[1].text, "\n">>)
            ELSE stdout
       /\ UNCHANGED << runs, stderr, exited, exitCode >>

\* The range loop receives the iterator's next item, main.go:183-191.
RunNext(k) ==
  /\ ~exited
  /\ runs[k] = "active"
  /\ consumed[k] < MaxEvents
  /\ \E it \in Items :
       /\ LoopBody(k, it)
       /\ carried' =
            IF ~it.isErr /\ CarriesText(it.event)
            THEN Append(carried, [run |-> k, texts |-> PartTexts(it.event.parts)])
            ELSE carried
  /\ consumed' = [consumed EXCEPT ![k] = @ + 1]
  /\ UNCHANGED << pc, envLoadOk, apiKey, err, created, submitted, toolResults >>

\* The iterator ends: the range loop and run return, main.go:191-192.
RunEnd(k) ==
  /\ ~exited
  /\ runs[k] = "active"
  /\ runs' = [runs EXCEPT ![k] = "done"]
  /\ UNCHANGED << pc, envLoadOk, apiKey, err, created, consumed, submitted,
                  stdout, stderr, exited, exitCode, carried, toolResults >>

\* The framework calls bookHotel while a run's iterator is being driven.
InvokeBookHotel(k) ==
  /\ ~exited
  /\ runs[k] = "active"
  /\ Len(toolResults) < MaxToolCalls
  /\ \E l \in Locations, d \in Dates :
       LET arg == [Location |-> l, Date |-> d] IN
       /\ stdout' = Append(stdout, FormatArg(<<arg.Location, " ", arg.Date>>))
       /\ toolResults' =
            Append(toolResults, [tool |-> "bookHotel", arg |-> <<l, d>>,
                                 result |-> bookHotel(arg)])
  /\ UNCHANGED << pc, envLoadOk, apiKey, err, created, runs, consumed, submitted,
                  stderr, exited, exitCode, carried >>

\* The framework calls bookFlight while a run's iterator is being driven.
InvokeBookFlight(k) ==
  /\ ~exited
  /\ runs[k] = "active"
  /\ Len(toolResults) < MaxToolCalls
  /\ \E o \in Origins, l \in Locations, d \in Dates :
       LET arg == [Origin |-> o, Destination |-> l, Date |-> d] IN
       /\ stdout' =
            Append(stdout,
                   FormatArg(<<arg.Origin, " ", arg.Destination, " ", arg.Date>>))
       /\ toolResults' =
            Append(toolResults, [tool |-> "bookFlight", arg |-> <<o, l, d>>,
                                 result |-> bookFlight(arg)])
  /\ UNCHANGED << pc, envLoadOk, apiKey, err, created, runs, consumed, submitted,
                  stderr, exited, exitCode, carried >>

\* return nil, main.go:169; main returns and the process ends with status 0.
ReturnNil ==
  /\ pc = "runs" /\ ~exited
  /\ \A k \in RunIds : runs[k] = "done"
  /\ pc' = "returned"
  /\ exited' = TRUE
  /\ exitCode' = 0
  /\ UNCHANGED << envLoadOk, apiKey, err, created, runs, consumed, submitted,
                  stdout, stderr, carried, toolResults >>

Next ==
  \/ LoadEnv
  \/ GetKey
  \/ NewModel
  \/ NewHotelTool
  \/ NewFlightTool
  \/ NewBookingAgent
  \/ NewInfoAgent
  \/ NewCoordinator
  \/ NewSessionService
  \/ NewRunner
  \/ CreateSession
  \/ MainFail
  \/ \E k \in RunIds : RunStart(k)
  \/ \E k \in RunIds : RunNext(k)
  \/ \E k \in RunIds : RunEnd(k)
  \/ \E k \in RunIds : InvokeBookHotel(k)
  \/ \E k \in RunIds : InvokeBookFlight(k)
  \/ ReturnNil

Spec == Init /\ [][Next]_vars

\* ------------------------------------------------------------ properties

\* The "Agent Response:" lines of standard output, in order.
ResponseLines == SelectSeq(stdout, LAMBDA c : c[1] = "Agent Response: ")

\* One "Agent Response:" line per received event that carries text, in order.
ExpectedLines ==
  [i \in 1..Len(carried) |-> <<"Agent Response: ">> \o carried[i].texts \o <<"\n">>]

\* Every result a handler returned reports success and names its arguments
\* and its confirmation code (bookHotel, bookFlight).
HandlerReportInv ==
  \A i \in 1..Len(toolResults) :
    LET r == toolResults[i] IN
    /\ r.result.Status = "success"
    /\ r.result.ErrorMessage = ""
    /\ \A j \in 1..Len(r.arg) : Contains(r.result.Report, r.arg[j])
    /\ Contains(r.result.Report,
                IF r.tool = "bookHotel" THEN "CONF_HOTEL_98765" ELSE "CONF_FLIGHT_12345")

\* C3: the prompts are submitted in their written order, at most one run is
\* in progress at any time, and a run has started only if the iterator of
\* every earlier run has ended (its event sequence was consumed to the end).
C3_RunsSequential ==
  /\ Cardinality({k \in RunIds : runs[k] = "active"}) <= 1
  /\ \A k \in RunIds :
       runs[k] # "idle" => \A j \in 1..(k - 1) : runs[j] = "done"
  /\ submitted = SubSeq(Prompts, 1, Len(submitted))

\* C3's case: the third run is in progress after the first two each consumed
\* events and ended.
C3_Witness ==
  /\ runs[3] = "active"
  /\ consumed[1] > 0 /\ consumed[2] > 0 /\ consumed[3] > 0
  /\ submitted = Prompts

\* C7 as stated: standard output holds exactly one "Agent Response: <text>"
\* line per received event that carries text, in the order received, and
\* none for an event without text.
C7_OneLinePerTextEvent == ResponseLines = ExpectedLines

\* C8: when os.Getenv("API_KEY") is empty, nothing is ever constructed, no
\* prompt is submitted, nothing is printed, runAgent is at or before the key
\* check or has returned an error, and the process can only end with the
\* error line on standard error and status 1.
C8_AbsentKeyFailsStartup ==
  apiKey = "" =>
    /\ created = {}
    /\ submitted = << >>
    /\ stdout = << >>
    /\ \A k \in RunIds : runs[k] = "idle"
    /\ pc \in {"load_env", "get_key", "main_err"}
    /\ pc = "main_err" => err # << >>
    /\ exited =>
         /\ pc = "main_err"
         /\ exitCode = 1
         /\ stderr = << <<"Error: ">> \o err \o <<"\n">> >>

\* C8's case: the environment loaded, the key check found the key empty, and
\* main has ended the process.
C8_Witness ==
  /\ apiKey = ""
  /\ envLoadOk
  /\ exited
  /\ err = <<"API_KEY environment variable is not set">>

\* C10 as stated: the loop handles every item that is not an error without
\* failing; no run ends in a runtime panic.
C10_LoopNeverPanics == \A k \in RunIds : runs[k] # "panic"

====
